---- MODULE Spec2Model ----
(***************************************************************************)
(* cognito-fetch: a model of cognitoFetch (src/lib/index.ts).              *)
(*                                                                         *)
(* One call of cognitoFetch is a synchronous part (resolution of region    *)
(* and credentials, construction of the request, optional aws4.sign, the   *)
(* call of fetch) followed by two suspension points (await fetch, await    *)
(* res.json()).  The collaborators aws4.sign, fetch and Response.json are  *)
(* the environment: their outcomes are inputs of the actions.              *)
(***************************************************************************)
EXTENDS Integers, Sequences, FiniteSets

(***************************************************************************)
(* JavaScript values.  Every value is a tagged record, so that any two     *)
(* values can be compared.                                                 *)
(***************************************************************************)
Undefined == [type |-> "undefined"]
Str(s)    == [type |-> "string", value |-> s]
Bool(b)   == [type |-> "boolean", value |-> b]
Num(n)    == [type |-> "number", value |-> n]
\* an object literal: its own properties in insertion order, <<key, value>>
Obj(kvs)  == [type |-> "object", entries |-> kvs]
Err(n, m) == [type |-> "error", name |-> n, message |-> m]

\* ToBoolean: undefined, "", false and 0 are falsy
Truthy(v) ==
  CASE v.type = "undefined" -> FALSE
    [] v.type = "string"    -> v.value # ""
    [] v.type = "boolean"   -> v.value
    [] v.type = "number"    -> v.value # 0
    [] OTHER                -> TRUE

\* a || b
Or(a, b) == IF Truthy(a) THEN a ELSE b

Digit(d) == <<"0", "1", "2", "3", "4", "5", "6", "7", "8", "9">>[d + 1]

RECURSIVE NumToString(_)
NumToString(n) ==
  IF n < 10 THEN Digit(n) ELSE NumToString(n \div 10) \o Digit(n % 10)

\* ToString, as a template literal applies it to a string or undefined
ToString(v) ==
  CASE v.type = "undefined" -> "undefined"
    [] v.type = "string"    -> v.value
    [] v.type = "number"    -> NumToString(v.value)
    [] v.type = "boolean"   -> IF v.value THEN "true" ELSE "false"
    [] OTHER                -> "[object Object]"

\* JSON.stringify(value) with no replacer and no indent: compact text.  The
\* strings of the model hold no character that JSON escapes.
RECURSIVE JSONtext(_)
RECURSIVE JSONentries(_)
JSONentries(kvs) ==
  IF kvs = <<>> THEN ""
  ELSE "\"" \o Head(kvs)[1] \o "\":" \o JSONtext(Head(kvs)[2])
       \o (IF Tail(kvs) = <<>> THEN "" ELSE "," \o JSONentries(Tail(kvs)))
JSONtext(v) ==
  CASE v.type = "string"  -> "\"" \o v.value \o "\""
    [] v.type = "number"  -> NumToString(v.value)
    [] v.type = "boolean" -> IF v.value THEN "true" ELSE "false"
    [] v.type = "object"  -> "{" \o JSONentries(v.entries) \o "}"

JSONstringify(v) == Str(JSONtext(v))

(***************************************************************************)
(* Promises                                                                *)
(***************************************************************************)
NoPromise    == [state |-> "none"]
Pending      == [state |-> "pending"]
Fulfilled(v) == [state |-> "fulfilled", value |-> v]
Rejected(e)  == [state |-> "rejected", reason |-> e]

(***************************************************************************)
(* Bounds and input sets                                                   *)
(***************************************************************************)
\* number of cognitoFetch calls that may be in flight together
NumCalls == 2
Calls == 1..NumCalls

EnvNames ==
  {"AWS_REGION", "AWS_DEFAULT_REGION", "AWS_ACCESS_KEY_ID", "AWS_SECRET_ACCESS_KEY"}

\* a process.env entry is a string (possibly empty) or absent
EnvValues(n) ==
  CASE n = "AWS_REGION"            -> {Undefined, Str(""), Str("us-west-2")}
    [] n = "AWS_DEFAULT_REGION"    -> {Undefined, Str(""), Str("ap-southeast-1")}
    [] n = "AWS_ACCESS_KEY_ID"     -> {Undefined, Str(""), Str("AKIA_ENV")}
    [] n = "AWS_SECRET_ACCESS_KEY" -> {Undefined, Str(""), Str("secret_env")}
EnvStates == {e \in [EnvNames -> UNION {EnvValues(n) : n \in EnvNames}] :
                \A n \in EnvNames : e[n] \in EnvValues(n)}

Targets == {"AWSCognitoIdentityProviderService.InitiateAuth"}

Bodies ==
  { Obj(<<>>),
    Obj(<< <<"A", Num(1)>> >>),
    Obj(<< <<"ClientId", Str("test-client")>>,
           <<"AuthParameters", Obj(<< <<"USERNAME", Str("test@example.com")>>,
                                      <<"N", Num(10)>> >>)>> >>) }

\* CognitoFetchOptions: an absent optional property reads as undefined
OptionsAll ==
  [ region          : {Undefined, Str(""), Str("us-east-1")},
    accessKeyId     : {Undefined, Str(""), Str("AKIA_PARAM")},
    secretAccessKey : {Undefined, Str(""), Str("secret_param")},
    body            : Bodies,
    signed          : {Undefined, Bool(FALSE), Bool(TRUE)} ]

Statuses   == {200, 400}
JsonValues == { Obj(<< <<"result", Str("success")>> >>),
                Obj(<< <<"__type", Str("NotAuthorizedException")>>,
                       <<"message", Str("Invalid credentials")>> >>) }
FetchErrors == { Err("Error", "Network error") }
JsonErrors  == { Err("SyntaxError", "Unexpected token in JSON") }
SignErrors  == { Err("TypeError", "aws4.sign failed") }

(***************************************************************************)
(* State                                                                   *)
(***************************************************************************)
VARIABLES
  env,          \* process.env, the four variables cognitoFetch reads
  pc,           \* per call: "idle", "fetch" (awaiting fetch), "json"
                \* (awaiting res.json()), "done"
  args,         \* per call: <<target, options>> once invoked
  locals,       \* per call: the consts region, accessKeyId, secretAccessKey, url
  signCalls,    \* per call: the invocations of aws4.sign, <<request, credentials,
                \* outcome>>, the outcome Undefined or the error thrown
  fetchCalls,   \* per call: the invocations of fetch, <<url, requestOptions>>
  events,       \* per call: the collaborators' invocations in program order
  fetchPromise, \* per call: the promise fetch returned
  jsonPromise,  \* per call: the promise res.json() returned
  result        \* per call: the promise cognitoFetch returned

vars == <<env, pc, args, locals, signCalls, fetchCalls, events,
          fetchPromise, jsonPromise, result>>

(***************************************************************************)
(* cognitoFetch, the synchronous part (index.ts lines 26-57)               *)
(***************************************************************************)
\* mutant: the environment takes precedence over options.region
regionEnvFirst(options, e) ==
  Or(Or(e["AWS_REGION"], e["AWS_DEFAULT_REGION"]), options.region)

\* mutant: the region resolved by the first call that dispatched is cached
\* and reused by every later call
regionCached(options, e) ==
  IF \E d \in Calls : fetchCalls[d] # <<>>
  THEN LET d == CHOOSE d \in Calls :
                  fetchCalls[d] # <<>> /\ \A x \in Calls : fetchCalls[x] # <<>> => d <= x
       IN fetchCalls[d][1][2].region
  ELSE Or(Or(options.region, e["AWS_REGION"]), e["AWS_DEFAULT_REGION"])

\* mutant: AWS_DEFAULT_REGION is consulted before AWS_REGION
regionDefaultFirst(options, e) ==
  Or(Or(options.region, e["AWS_DEFAULT_REGION"]), e["AWS_REGION"])

region(options, e) ==
  Or(Or(options.region, e["AWS_REGION"]), e["AWS_DEFAULT_REGION"])

accessKeyId(options, e) == Or(options.accessKeyId, e["AWS_ACCESS_KEY_ID"])

secretAccessKey(options, e) ==
  Or(options.secretAccessKey, e["AWS_SECRET_ACCESS_KEY"])

\* mutant: a missing region is replaced by a default region
urlDefaultRegion(r) ==
  Str("https://cognito-idp." \o (IF r = Undefined THEN "us-east-1" ELSE ToString(r))
      \o ".amazonaws.com/")

url(r) == Str("https://cognito-idp." \o ToString(r) \o ".amazonaws.com/")

\* new AbortController().signal: never aborted by cognitoFetch
AbortSignal == [type |-> "AbortSignal", aborted |-> FALSE]

\* mutant: the body is put in the request as given, not serialized
requestOptionsRawBody(target, options, e) ==
  [ signal  |-> AbortSignal,
    service |-> Str("cognito-idp"),
    region  |-> region(options, e),
    method  |-> Str("POST"),
    url     |-> url(region(options, e)),
    headers |-> [h \in {"x-amz-target", "content-type"} |->
                   IF h = "x-amz-target" THEN Str(target)
                   ELSE Str("application/x-amz-json-1.1")],
    body    |-> options.body ]

requestOptions(target, options, e) ==
  [ signal  |-> AbortSignal,
    service |-> Str("cognito-idp"),
    region  |-> region(options, e),
    method  |-> Str("POST"),
    url     |-> url(region(options, e)),
    headers |-> [h \in {"x-amz-target", "content-type"} |->
                   IF h = "x-amz-target" THEN Str(target)
                   ELSE Str("application/x-amz-json-1.1")],
    body    |-> JSONstringify(options.body) ]

\* the credentials object handed to aws4.sign
credentials(options, e) ==
  [ accessKeyId     |-> accessKeyId(options, e),
    secretAccessKey |-> secretAccessKey(options, e) ]

\* mutant: a call that carries an access key is signed too
ShouldSignWithKey(options) ==
  Truthy(options.signed) \/ Truthy(options.accessKeyId)

\* if (options.signed)
ShouldSign(options) == Truthy(options.signed)

\* the instant aws4.sign stamps on the request
XAmzDate == "20261103T000000Z"

SigningHeaders == {"Host", "X-Amz-Date", "Authorization"}

\* aws4.sign(request, credentials) returning normally: the request with the
\* signing headers added to its headers; every other field is left alone.
\* The signature is a function of region, service, body and credentials.
aws4sign(request, creds) ==
  LET added(h) ==
        CASE h = "Host" ->
               Str("cognito-idp." \o ToString(request.region) \o ".amazonaws.com")
          [] h = "X-Amz-Date" -> Str(XAmzDate)
          [] h = "Authorization" ->
               Str("AWS4-HMAC-SHA256 Credential=" \o ToString(creds.accessKeyId)
                   \o "/" \o ToString(request.region) \o "/"
                   \o ToString(request.service) \o "/aws4_request, Signature=HMAC("
                   \o ToString(creds.secretAccessKey) \o ","
                   \o ToString(request.body) \o ")")
  IN [request EXCEPT !.headers =
        [h \in (DOMAIN request.headers) \cup SigningHeaders |->
           IF h \in SigningHeaders THEN added(h) ELSE request.headers[h]]]

\* mutant: fetch is given the request as it was before signing
fetchInitUnsigned(req, creds, sign) == req

\* the second argument of fetch: requestOptions itself, which aws4.sign has
\* changed in place when the call is signed
fetchInit(req, creds, sign) == IF sign THEN aws4sign(req, creds) ELSE req

Response(status) == [type |-> "response", status |-> status]

\* cognitoFetch(target, options) up to its first await.  signOutcome is what
\* aws4.sign does if it is invoked: Undefined (returns) or the error it throws.
Invoke(c, target, options, signOutcome) ==
  /\ pc[c] = "idle"
  /\ LET r      == region(options, env)
         req    == requestOptions(target, options, env)
         creds  == credentials(options, env)
         sign   == ShouldSign(options)
         throws == sign /\ signOutcome.type = "error"
         sent   == fetchInit(req, creds, sign)
     IN /\ args' = [args EXCEPT ![c] = <<target, options>>]
        /\ locals' = [locals EXCEPT ![c] =
                        [ region          |-> r,
                          accessKeyId     |-> accessKeyId(options, env),
                          secretAccessKey |-> secretAccessKey(options, env),
                          url             |-> url(r) ]]
        /\ signCalls' = [signCalls EXCEPT ![c] =
                           IF sign THEN Append(@, <<req, creds, signOutcome>>) ELSE @]
        /\ events' = [events EXCEPT ![c] =
                        @ \o <<"JSON.stringify">>
                          \o (IF sign THEN <<"aws4.sign">> ELSE <<>>)
                          \o (IF throws THEN <<>> ELSE <<"fetch">>)]
        /\ IF throws
           THEN /\ result' = [result EXCEPT ![c] = Rejected(signOutcome)]
                /\ pc' = [pc EXCEPT ![c] = "done"]
                /\ UNCHANGED <<fetchCalls, fetchPromise>>
           ELSE /\ fetchCalls' = [fetchCalls EXCEPT ![c] = Append(@, <<url(r), sent>>)]
                /\ fetchPromise' = [fetchPromise EXCEPT ![c] = Pending]
                /\ result' = [result EXCEPT ![c] = Pending]
                /\ pc' = [pc EXCEPT ![c] = "fetch"]
  /\ UNCHANGED <<env, jsonPromise>>

(***************************************************************************)
(* The two suspension points (index.ts lines 57-58)                        *)
(***************************************************************************)
\* mutant: a response with an error status is turned into a rejection
FetchResolvesOkOnly(c, status) ==
  /\ pc[c] = "fetch"
  /\ fetchPromise' = [fetchPromise EXCEPT ![c] = Fulfilled(Response(status))]
  /\ IF status >= 400
     THEN /\ result' = [result EXCEPT ![c] = Rejected(Err("Error", "HTTP error"))]
          /\ pc' = [pc EXCEPT ![c] = "done"]
          /\ UNCHANGED <<events, jsonPromise>>
     ELSE /\ events' = [events EXCEPT ![c] = Append(@, "res.json")]
          /\ jsonPromise' = [jsonPromise EXCEPT ![c] = Pending]
          /\ pc' = [pc EXCEPT ![c] = "json"]
          /\ UNCHANGED result
  /\ UNCHANGED <<env, args, locals, signCalls, fetchCalls>>

\* fetch fulfils with a response; the call resumes and invokes res.json()
FetchResolves(c, status) ==
  /\ pc[c] = "fetch"
  /\ fetchPromise' = [fetchPromise EXCEPT ![c] = Fulfilled(Response(status))]
  /\ events' = [events EXCEPT ![c] = Append(@, "res.json")]
  /\ jsonPromise' = [jsonPromise EXCEPT ![c] = Pending]
  /\ pc' = [pc EXCEPT ![c] = "json"]
  /\ UNCHANGED <<env, args, locals, signCalls, fetchCalls, result>>

\* mutant: a first transport failure is retried
FetchRejectsRetry(c, e) ==
  /\ pc[c] = "fetch"
  /\ fetchPromise' = [fetchPromise EXCEPT ![c] = Rejected(e)]
  /\ IF Len(fetchCalls[c]) = 1
     THEN /\ fetchCalls' = [fetchCalls EXCEPT ![c] = Append(@, @[1])]
          /\ events' = [events EXCEPT ![c] = Append(@, "fetch")]
          /\ UNCHANGED <<result, pc>>
     ELSE /\ result' = [result EXCEPT ![c] = Rejected(e)]
          /\ pc' = [pc EXCEPT ![c] = "done"]
          /\ UNCHANGED <<fetchCalls, events>>
  /\ UNCHANGED <<env, args, locals, signCalls, jsonPromise>>

\* fetch rejects; the await throws and the call rejects
FetchRejects(c, e) ==
  /\ pc[c] = "fetch"
  /\ fetchPromise' = [fetchPromise EXCEPT ![c] = Rejected(e)]
  /\ result' = [result EXCEPT ![c] = Rejected(e)]
  /\ pc' = [pc EXCEPT ![c] = "done"]
  /\ UNCHANGED <<env, args, locals, signCalls, fetchCalls, events, jsonPromise>>

\* res.json() fulfils with v; the call returns v
JsonResolves(c, v) ==
  /\ pc[c] = "json"
  /\ jsonPromise' = [jsonPromise EXCEPT ![c] = Fulfilled(v)]
  /\ result' = [result EXCEPT ![c] = Fulfilled(v)]
  /\ pc' = [pc EXCEPT ![c] = "done"]
  /\ UNCHANGED <<env, args, locals, signCalls, fetchCalls, events, fetchPromise>>

\* mutant: a deserialization failure is caught and wrapped in a new error
JsonRejectsWrapped(c, e) ==
  /\ pc[c] = "json"
  /\ jsonPromise' = [jsonPromise EXCEPT ![c] = Rejected(e)]
  /\ result' = [result EXCEPT ![c] = Rejected(Err("Error", "cognitoFetch failed"))]
  /\ pc' = [pc EXCEPT ![c] = "done"]
  /\ UNCHANGED <<env, args, locals, signCalls, fetchCalls, events, fetchPromise>>

\* res.json() rejects; the await throws and the call rejects
JsonRejects(c, e) ==
  /\ pc[c] = "json"
  /\ jsonPromise' = [jsonPromise EXCEPT ![c] = Rejected(e)]
  /\ result' = [result EXCEPT ![c] = Rejected(e)]
  /\ pc' = [pc EXCEPT ![c] = "done"]
  /\ UNCHANGED <<env, args, locals, signCalls, fetchCalls, events, fetchPromise>>

\* the host program assigns or deletes one of the environment variables
SetEnv(n, v) ==
  /\ v # env[n]
  /\ env' = [env EXCEPT ![n] = v]
  /\ UNCHANGED <<pc, args, locals, signCalls, fetchCalls, events,
                 fetchPromise, jsonPromise, result>>

(***************************************************************************)
(* Spec: one call, every options value, every environment state            *)
(***************************************************************************)
NoArgs == <<>>

InitCalls ==
  /\ pc = [c \in Calls |-> "idle"]
  /\ args = [c \in Calls |-> NoArgs]
  /\ locals = [c \in Calls |-> Undefined]
  /\ signCalls = [c \in Calls |-> <<>>]
  /\ fetchCalls = [c \in Calls |-> <<>>]
  /\ events = [c \in Calls |-> <<>>]
  /\ fetchPromise = [c \in Calls |-> NoPromise]
  /\ jsonPromise = [c \in Calls |-> NoPromise]
  /\ result = [c \in Calls |-> NoPromise]

Init == env \in EnvStates /\ InitCalls

Next ==
  \/ \E t \in Targets, o \in OptionsAll, s \in {Undefined} \cup SignErrors :
       Invoke(1, t, o, s)
  \/ \E s \in Statuses : FetchResolves(1, s)
  \/ \E e \in FetchErrors : FetchRejects(1, e)
  \/ \E v \in JsonValues : JsonResolves(1, v)
  \/ \E e \in JsonErrors : JsonRejects(1, e)

Spec == Init /\ [][Next]_vars

(***************************************************************************)
(* SpecConc: NumCalls calls in flight together, the environment changing   *)
(* at any moment                                                           *)
(***************************************************************************)
BodyA1 == Obj(<< <<"A", Num(1)>> >>)

\* a signed call that takes everything from the environment, and an unsigned
\* call that names its region and credentials
OptionsConc ==
  { [ region |-> Undefined, accessKeyId |-> Undefined,
      secretAccessKey |-> Undefined, body |-> BodyA1, signed |-> Bool(TRUE) ],
    [ region |-> Str("us-east-1"), accessKeyId |-> Str("AKIA_PARAM"),
      secretAccessKey |-> Str("secret_param"), body |-> Obj(<<>>),
      signed |-> Undefined ] }

EnvNamesConc == {"AWS_REGION", "AWS_ACCESS_KEY_ID"}
EnvValuesConc(n) == EnvValues(n) \ {Str("")}

InitConc ==
  /\ env = [n \in EnvNames |-> Undefined]
  /\ InitCalls

NextConc ==
  \/ \E c \in Calls, t \in Targets, o \in OptionsConc,
        s \in {Undefined} \cup SignErrors : Invoke(c, t, o, s)
  \/ \E c \in Calls : FetchResolves(c, 200)
  \/ \E c \in Calls, e \in FetchErrors : FetchRejects(c, e)
  \/ \E c \in Calls : JsonResolves(c, Obj(<<>>))
  \/ \E c \in Calls, e \in JsonErrors : JsonRejects(c, e)
  \/ \E n \in EnvNamesConc : \E v \in EnvValuesConc(n) : SetEnv(n, v)

SpecConc == InitConc /\ [][NextConc]_vars

(***************************************************************************)
(* Vocabulary of the properties                                            *)
(***************************************************************************)
Invoked(c)    == pc[c] # "idle"
Dispatched(c) == fetchCalls[c] # <<>>
Target(c)     == args[c][1]
Options(c)    == args[c][2]
\* the arguments of the first invocation of fetch / aws4.sign by call c
SentUrl(c)     == fetchCalls[c][1][1]
Sent(c)        == fetchCalls[c][1][2]
SignedReq(c)   == signCalls[c][1][1]
SignedCreds(c) == signCalls[c][1][2]
IsString(v)   == v.type = "string"
NonEmpty(v)   == v.type = "string" /\ v.value # ""
UrlOf(text)   == Str("https://cognito-idp." \o text \o ".amazonaws.com/")

\* the three option fields of call c hold their supplied value wherever the
\* call uses them, for the fields that satisfy Given
Overrides(c, Given(_)) ==
  /\ Given(Options(c).region) =>
       /\ locals[c].region = Options(c).region
       /\ locals[c].url = UrlOf(Options(c).region.value)
       /\ \A i \in DOMAIN fetchCalls[c] :
            /\ fetchCalls[c][i][1] = UrlOf(Options(c).region.value)
            /\ fetchCalls[c][i][2].region = Options(c).region
            /\ fetchCalls[c][i][2].url = UrlOf(Options(c).region.value)
       /\ \A i \in DOMAIN signCalls[c] :
            signCalls[c][i][1].region = Options(c).region
  /\ Given(Options(c).accessKeyId) =>
       /\ locals[c].accessKeyId = Options(c).accessKeyId
       /\ \A i \in DOMAIN signCalls[c] :
            signCalls[c][i][2].accessKeyId = Options(c).accessKeyId
  /\ Given(Options(c).secretAccessKey) =>
       /\ locals[c].secretAccessKey = Options(c).secretAccessKey
       /\ \A i \in DOMAIN signCalls[c] :
            signCalls[c][i][2].secretAccessKey = Options(c).secretAccessKey

\* C1 as stated: every string supplied in options for region, accessKeyId or
\* secretAccessKey, the empty string included, is the resolved value of that
\* field, whatever the environment holds.
C1_OverrideEveryString ==
  \A c \in Calls : Invoked(c) => Overrides(c, IsString)

\* C1, amended: every non-empty string supplied in options for region,
\* accessKeyId or secretAccessKey is the resolved value of that field (the
\* region of the URL and of the descriptor, the credentials handed to
\* aws4.sign), whatever the environment holds.
C1_OverrideNonEmpty ==
  \A c \in Calls : Invoked(c) => Overrides(c, NonEmpty)

\* a signed, dispatched call whose three explicit values all differ from the
\* values the environment holds
C1_Witness ==
  \E c \in Calls :
    /\ Dispatched(c) /\ signCalls[c] # <<>>
    /\ Options(c).region = Str("us-east-1")
    /\ Options(c).accessKeyId = Str("AKIA_PARAM")
    /\ Options(c).secretAccessKey = Str("secret_param")
    /\ env["AWS_REGION"] = Str("us-west-2")
    /\ env["AWS_DEFAULT_REGION"] = Str("ap-southeast-1")
    /\ env["AWS_ACCESS_KEY_ID"] = Str("AKIA_ENV")
    /\ env["AWS_SECRET_ACCESS_KEY"] = Str("secret_env")

\* the fallbacks of call c, where Set(v) says that an environment variable
\* counts as set
Fallbacks(c, Set(_)) ==
  /\ Options(c).region = Undefined =>
       LET r == IF Set(env["AWS_REGION"]) THEN env["AWS_REGION"]
                ELSE env["AWS_DEFAULT_REGION"]
       IN /\ locals[c].region = r
          /\ \A i \in DOMAIN fetchCalls[c] : fetchCalls[c][i][2].region = r
          /\ \A i \in DOMAIN signCalls[c] : signCalls[c][i][1].region = r
  /\ Options(c).accessKeyId = Undefined =>
       /\ locals[c].accessKeyId = env["AWS_ACCESS_KEY_ID"]
       /\ \A i \in DOMAIN signCalls[c] :
            signCalls[c][i][2].accessKeyId = env["AWS_ACCESS_KEY_ID"]
  /\ Options(c).secretAccessKey = Undefined =>
       /\ locals[c].secretAccessKey = env["AWS_SECRET_ACCESS_KEY"]
       /\ \A i \in DOMAIN signCalls[c] :
            signCalls[c][i][2].secretAccessKey = env["AWS_SECRET_ACCESS_KEY"]
  \* resolution raises nothing: the call goes on to aws4.sign or to fetch
  /\ Dispatched(c) \/ signCalls[c] # <<>>

IsSet(v) == v # Undefined

\* C2 as stated: with no options.region the resolved region is AWS_REGION when
\* that variable is set (to any string), else AWS_DEFAULT_REGION, else
\* undefined; the credentials likewise; resolution raises no error.
C2_FallbackWhenSet ==
  \A c \in Calls : Invoked(c) => Fallbacks(c, IsSet)

\* C2, amended: with no options.region the resolved region is AWS_REGION when
\* that variable is set to a non-empty string, else the value of
\* AWS_DEFAULT_REGION (undefined when unset); with no options.accessKeyId /
\* secretAccessKey the credential is the value of AWS_ACCESS_KEY_ID /
\* AWS_SECRET_ACCESS_KEY (undefined when unset); resolution raises no error.
C2_FallbackWhenNonEmpty ==
  \A c \in Calls : Invoked(c) => Fallbacks(c, NonEmpty)

\* a signed call with no explicit value, AWS_REGION unset and
\* AWS_DEFAULT_REGION set: the second fallback decides the region
C2_Witness ==
  \E c \in Calls :
    /\ Dispatched(c) /\ signCalls[c] # <<>>
    /\ Options(c).region = Undefined
    /\ Options(c).accessKeyId = Undefined
    /\ Options(c).secretAccessKey = Undefined
    /\ env["AWS_REGION"] = Undefined
    /\ env["AWS_DEFAULT_REGION"] = Str("ap-southeast-1")
    /\ env["AWS_ACCESS_KEY_ID"] = Str("AKIA_ENV")
    /\ Sent(c).region = Str("ap-southeast-1")

\* how often the collaborator named ev was invoked by call c
Count(c, ev) == Cardinality({i \in DOMAIN events[c] : events[c][i] = ev})
\* the positions of ev in the program order of call c
Pos(c, ev) == {i \in DOMAIN events[c] : events[c][i] = ev}

\* C3: whatever status the response carries, res.json() is invoked once, and
\* when it fulfils with v the call fulfils with exactly v.
C3_StatusAgnostic ==
  \A c \in Calls :
    /\ fetchPromise[c].state = "fulfilled" =>
         /\ Count(c, "res.json") = 1
         /\ jsonPromise[c] # NoPromise
    /\ jsonPromise[c].state = "fulfilled" =>
         result[c] = Fulfilled(jsonPromise[c].value)

\* a 400 response whose body is an error payload: the call fulfils with it
C3_Witness ==
  \E c \in Calls :
    /\ fetchPromise[c] = Fulfilled(Response(400))
    /\ jsonPromise[c].state = "fulfilled"
    /\ jsonPromise[c].value.entries[1] = <<"__type", Str("NotAuthorizedException")>>
    /\ result[c] = jsonPromise[c]

\* C4: a call whose options.signed is false or absent never invokes aws4.sign,
\* and hands fetch a request with exactly the headers x-amz-target and
\* content-type, whatever credentials options or the environment hold.
C4_UnsignedNeverSigns ==
  \A c \in Calls :
    (Invoked(c) /\ Options(c).signed \in {Undefined, Bool(FALSE)}) =>
      /\ signCalls[c] = <<>>
      /\ Count(c, "aws4.sign") = 0
      /\ Len(fetchCalls[c]) = 1
      /\ DOMAIN Sent(c).headers = {"x-amz-target", "content-type"}
      /\ Sent(c).headers["x-amz-target"] = Str(Target(c))
      /\ Sent(c).headers["content-type"] = Str("application/x-amz-json-1.1")

\* an unsigned call dispatched while options and environment hold credentials
C4_Witness ==
  \E c \in Calls :
    /\ Dispatched(c)
    /\ Options(c).signed = Bool(FALSE)
    /\ Options(c).accessKeyId = Str("AKIA_PARAM")
    /\ Options(c).secretAccessKey = Str("secret_param")
    /\ env["AWS_ACCESS_KEY_ID"] = Str("AKIA_ENV")
    /\ env["AWS_SECRET_ACCESS_KEY"] = Str("secret_env")

\* the credential a call resolves: the option when it is a non-empty string,
\* the environment variable otherwise
Resolved(opt, envValue) == IF NonEmpty(opt) THEN opt ELSE envValue

\* C5: a call whose options.signed is true invokes aws4.sign exactly once, with
\* the resolved credentials, before fetch; the request fetch receives carries
\* the headers aws4.sign added, x-amz-target equal to the target and
\* content-type equal to application/x-amz-json-1.1.
C5_SignedSignsOnce ==
  \A c \in Calls :
    (Invoked(c) /\ Options(c).signed = Bool(TRUE)) =>
      /\ Len(signCalls[c]) = 1
      /\ Count(c, "aws4.sign") = 1
      /\ SignedCreds(c) =
           [ accessKeyId |->
               Resolved(Options(c).accessKeyId, env["AWS_ACCESS_KEY_ID"]),
             secretAccessKey |->
               Resolved(Options(c).secretAccessKey, env["AWS_SECRET_ACCESS_KEY"]) ]
      /\ \A i \in Pos(c, "aws4.sign"), j \in Pos(c, "fetch") : i < j
      /\ Dispatched(c) =>
           /\ Len(fetchCalls[c]) = 1
           /\ SigningHeaders \subseteq DOMAIN Sent(c).headers
           /\ \A h \in SigningHeaders :
                Sent(c).headers[h] =
                  aws4sign(SignedReq(c), SignedCreds(c)).headers[h]
           /\ Sent(c).headers["x-amz-target"] = Str(Target(c))
           /\ Sent(c).headers["content-type"] = Str("application/x-amz-json-1.1")

\* a signed call, its credentials taken from the environment, dispatched
C5_Witness ==
  \E c \in Calls :
    /\ Dispatched(c)
    /\ Options(c).signed = Bool(TRUE)
    /\ Options(c).accessKeyId = Undefined
    /\ SignedCreds(c).accessKeyId = Str("AKIA_ENV")
    /\ "Authorization" \in DOMAIN Sent(c).headers

\* C6: when fetch rejects with e the call rejects with exactly e and res.json()
\* is never invoked; when res.json() rejects with e the call rejects with
\* exactly e.
C6_FailuresPropagate ==
  \A c \in Calls :
    /\ fetchPromise[c].state = "rejected" =>
         /\ result[c] = Rejected(fetchPromise[c].reason)
         /\ jsonPromise[c] = NoPromise
         /\ Count(c, "res.json") = 0
    /\ jsonPromise[c].state = "rejected" =>
         result[c] = Rejected(jsonPromise[c].reason)

\* a call whose response body failed to parse
C6_Witness ==
  \E c \in Calls :
    /\ fetchPromise[c].state = "fulfilled"
    /\ jsonPromise[c] = Rejected(Err("SyntaxError", "Unexpected token in JSON"))
    /\ result[c].state = "rejected"

\* JSON.stringify of each body of the model, written out
BodyText(b) ==
  CASE b = Obj(<<>>) -> "{}"
    [] b = BodyA1    -> "{\"A\":1}"
    [] OTHER ->
       "{\"ClientId\":\"test-client\",\"AuthParameters\":{\"USERNAME\":\"test@example.com\",\"N\":10}}"

\* what a call with these arguments makes of this environment: the region,
\* the request before signing, the credentials
ExpectedRegion(o, e) ==
  IF NonEmpty(o.region) THEN o.region
  ELSE IF NonEmpty(e["AWS_REGION"]) THEN e["AWS_REGION"]
  ELSE e["AWS_DEFAULT_REGION"]
ExpectedRequest(t, o, e) ==
  [ signal  |-> AbortSignal,
    service |-> Str("cognito-idp"),
    region  |-> ExpectedRegion(o, e),
    method  |-> Str("POST"),
    url     |-> UrlOf(IF ExpectedRegion(o, e) = Undefined THEN "undefined"
                      ELSE ExpectedRegion(o, e).value),
    headers |-> [h \in {"x-amz-target", "content-type"} |->
                   IF h = "x-amz-target" THEN Str(t)
                   ELSE Str("application/x-amz-json-1.1")],
    body    |-> Str(BodyText(o.body)) ]
ExpectedCreds(o, e) ==
  [ accessKeyId     |-> Resolved(o.accessKeyId, e["AWS_ACCESS_KEY_ID"]),
    secretAccessKey |-> Resolved(o.secretAccessKey, e["AWS_SECRET_ACCESS_KEY"]) ]

\* C7: in every step, a call that is invoked signs and dispatches the request
\* its own arguments and the environment of that moment determine, and the
\* record of what a call already signed and dispatched is changed by no step:
\* not by another call, not by a change of the environment.
C7_CallIndependence ==
  [][\A c \in Calls :
       /\ (pc[c] = "idle" /\ pc'[c] # "idle") =>
            LET t   == args'[c][1]
                o   == args'[c][2]
                req == ExpectedRequest(t, o, env)
            IN /\ o.signed = Bool(TRUE) =>
                    /\ Len(signCalls'[c]) = 1
                    /\ signCalls'[c][1][1] = req
                    /\ signCalls'[c][1][2] = ExpectedCreds(o, env)
               /\ o.signed # Bool(TRUE) => signCalls'[c] = <<>>
               /\ \A i \in DOMAIN fetchCalls'[c] :
                    /\ fetchCalls'[c][i][1] = req.url
                    /\ fetchCalls'[c][i][2] =
                         IF o.signed = Bool(TRUE)
                         THEN aws4sign(req, ExpectedCreds(o, env)) ELSE req
       /\ pc[c] # "idle" =>
            /\ args'[c] = args[c]
            /\ locals'[c] = locals[c]
            /\ signCalls'[c] = signCalls[c]
            /\ fetchCalls'[c] = fetchCalls[c]
    ]_vars

\* two calls with the same arguments in flight together, the first invoked
\* before AWS_REGION and AWS_ACCESS_KEY_ID were set and still suspended, the
\* second invoked after
C7_Witness ==
  \E c, d \in Calls :
    /\ c # d
    /\ Dispatched(c) /\ Dispatched(d)
    /\ Options(c) = Options(d)
    /\ Options(c).region = Undefined
    /\ pc[c] = "fetch" /\ pc[d] = "fetch"
    /\ Sent(c).region = Undefined
    /\ SignedCreds(c).accessKeyId = Undefined
    /\ env["AWS_REGION"] = Str("us-west-2")
    /\ env["AWS_ACCESS_KEY_ID"] = Str("AKIA_ENV")
    /\ Sent(d).region = Str("us-west-2")
    /\ SignedCreds(d).accessKeyId = Str("AKIA_ENV")

\* C8: in a signed call the body is serialized, then aws4.sign is invoked, then
\* fetch; aws4.sign is given the JSON text of options.body as the body, and
\* fetch receives that same text.
C8_SerializeSignSend ==
  \A c \in Calls :
    (Invoked(c) /\ Options(c).signed = Bool(TRUE)) =>
      /\ Len(events[c]) >= 2
      /\ events[c][1] = "JSON.stringify"
      /\ events[c][2] = "aws4.sign"
      /\ Pos(c, "JSON.stringify") = {1}
      /\ SignedReq(c).body = Str(BodyText(Options(c).body))
      /\ Dispatched(c) =>
           /\ events[c][3] = "fetch"
           /\ Sent(c).body = SignedReq(c).body

\* a signed call with the nested body, dispatched
C8_Witness ==
  \E c \in Calls :
    /\ Dispatched(c)
    /\ Options(c).signed = Bool(TRUE)
    /\ Options(c).body \notin {Obj(<<>>), BodyA1}
    /\ Sent(c).body = Str(BodyText(Options(c).body))

\* C9: an unsigned call made while options.region, AWS_REGION and
\* AWS_DEFAULT_REGION are all absent raises nothing before dispatch: fetch is
\* invoked exactly once, with the URL
\* https://cognito-idp.undefined.amazonaws.com/, and the call settles as
\* fetch and res.json() settle.
C9_MissingRegionNotValidated ==
  \A c \in Calls :
    ( /\ Invoked(c)
      /\ Options(c).signed \in {Undefined, Bool(FALSE)}
      /\ Options(c).region = Undefined
      /\ env["AWS_REGION"] = Undefined
      /\ env["AWS_DEFAULT_REGION"] = Undefined ) =>
      /\ Len(fetchCalls[c]) = 1
      /\ SentUrl(c) = Str("https://cognito-idp.undefined.amazonaws.com/")
      /\ Sent(c).url = SentUrl(c)
      /\ result[c].state = "pending" <=> pc[c] \in {"fetch", "json"}
      /\ result[c].state = "rejected" =>
           \/ fetchPromise[c] = result[c]
           \/ jsonPromise[c] = result[c]
      /\ result[c].state = "fulfilled" => jsonPromise[c] = result[c]

\* such a call, completed with the value the response body deserialized to
C9_Witness ==
  \E c \in Calls :
    /\ Dispatched(c)
    /\ Options(c).signed = Undefined
    /\ Options(c).region = Undefined
    /\ env["AWS_REGION"] = Undefined
    /\ env["AWS_DEFAULT_REGION"] = Undefined
    /\ SentUrl(c) = Str("https://cognito-idp.undefined.amazonaws.com/")
    /\ result[c].state = "fulfilled"

\* C10: a call invokes fetch at most once; exactly once when aws4.sign is not
\* invoked or returns; never when aws4.sign throws, and then the call rejects
\* with the error aws4.sign threw.
C10_AtMostOneDispatch ==
  \A c \in Calls :
    /\ Len(fetchCalls[c]) <= 1
    /\ Count(c, "fetch") = Len(fetchCalls[c])
    /\ Invoked(c) =>
         IF signCalls[c] # <<>> /\ signCalls[c][1][3].type = "error"
         THEN /\ fetchCalls[c] = <<>>
              /\ result[c] = Rejected(signCalls[c][1][3])
         ELSE Len(fetchCalls[c]) = 1

\* a call whose transport failed: it is over and fetch was invoked once
C10_Witness ==
  \E c \in Calls :
    /\ fetchPromise[c].state = "rejected"
    /\ pc[c] = "done"
    /\ Len(fetchCalls[c]) = 1

====
